---------------------------- MODULE Spec2Model ----------------------------
(***************************************************************************)
(* A model of Modules/testload.py: the bulk-load strategies for the        *)
(* staging_beers table, the profile decorator that drives them, the        *)
(* first_brewed parser, the COPY text encoder and the StringIteratorIO     *)
(* stream adapter.                                                         *)
(*                                                                         *)
(* Text is a sequence of one-character strings.  A Python value is a       *)
(* record [t, s, n]: t its type, s its characters (str), n its numbers     *)
(* (int: <<n>>, date: <<y, m, d>>, a volume dict: <<value>> or <<>> when   *)
(* the key 'value' is missing).                                            *)
(***************************************************************************)
EXTENDS Integers, Sequences, FiniteSets, TLC

VARIABLES
    \* ---- the load: profile.inner and the strategy body it runs
    fn,          \* the strategy function being called
    size,        \* its page_size / size argument (0: it has none)
    beers,       \* its record source: [kind |-> "list" | "iter", items |-> ...]
    it,          \* how many records the current iterator over beers has yielded
    pc,          \* profile.inner: "idle", "timing", "memory", "returned", "raised"
    at,          \* the place in the strategy body
    table,       \* staging_beers: the sequence of its rows
    all_beers,   \* the rows materialized or paged on the client side
    csv,         \* copy_stringio's StringIO / the text the store got on COPY
    prevRows,    \* rows staging_beers held when the load was called
    \* ---- StringIteratorIO and the read call in progress
    _iter,       \* the strings the generator has still to yield
    _buff,       \* self._buff
    io_pc,       \* "idle", "loop" (inside read's loop), "done" (read returned)
    io_n,        \* read's n (None is -1)
    io_req,      \* the n the read was called with
    io_line,     \* read's local list `line`, joined
    io_ret,      \* what the last read returned
    io_src,      \* every string the generator was built over
    io_last,     \* the string most recently pulled from the generator
    io_out,      \* the concatenation of what the reads returned so far
    \* ---- the pure functions
    text,        \* an argument of parse_first_brewed
    result,      \* what it gave
    row,         \* a tuple of values handed to the encoder
    line,        \* its encoded line
    decoded      \* the line as the store's COPY parser reads it back

loadVars == <<fn, size, beers, it, pc, at, table, all_beers, csv, prevRows>>
ioVars == <<_iter, _buff, io_pc, io_n, io_req, io_line, io_ret, io_src, io_last, io_out>>
pureVars == <<text, result, row, line, decoded>>
vars == <<loadVars, ioVars, pureVars>>

------------------------------------------------------------------------------
\* Characters with a role in the formats.
NL == "\n"
BS == "\\"
SEP == "|"
SLASH == "/"
Digits == <<"0", "1", "2", "3", "4", "5", "6", "7", "8", "9">>

IsDigit(c) == \E i \in 1..10 : Digits[i] = c
DigitVal(c) == (CHOOSE i \in 1..10 : Digits[i] = c) - 1

\* Python values.
None == [t |-> "None", s |-> <<>>, n |-> <<>>]
PyStr(s) == [t |-> "str", s |-> s, n |-> <<>>]
PyInt(n) == [t |-> "int", s |-> <<>>, n |-> <<n>>]
PyDate(y, m, d) == [t |-> "date", s |-> <<>>, n |-> <<y, m, d>>]
PyDict(n) == [t |-> "dict", s |-> <<>>, n |-> n]

\* An evaluation's outcome: a value, or the exception it raised.
Ok(v) == [exc |-> "", val |-> v]
Raise(e) == [exc |-> e, val |-> None]

RECURSIVE Concat(_)
Concat(ss) == IF ss = <<>> THEN <<>> ELSE Head(ss) \o Concat(Tail(ss))

\* str.split(sep): always at least one part; "" splits into [""].
RECURSIVE split(_, _)
split(s, sep) ==
    IF \A i \in 1..Len(s) : s[i] # sep
    THEN <<s>>
    ELSE LET i == CHOOSE k \in 1..Len(s) :
                      s[k] = sep /\ \A j \in 1..(k - 1) : s[j] # sep
         IN  <<SubSeq(s, 1, i - 1)>> \o split(SubSeq(s, i + 1, Len(s)), sep)

\* sep.join(parts)
RECURSIVE join(_, _)
join(parts, sep) ==
    IF parts = <<>> THEN <<>>
    ELSE IF Len(parts) = 1 THEN parts[1]
    ELSE parts[1] \o <<sep>> \o join(Tail(parts), sep)

\* The value of a string of decimal digits.
RECURSIVE DigitsVal(_)
DigitsVal(s) ==
    IF s = <<>> THEN 0
    ELSE 10 * DigitsVal(SubSeq(s, 1, Len(s) - 1)) + DigitVal(s[Len(s)])

\* int(s) of a str over digits and other characters: ValueError unless s is
\* a non-empty string of digits.
int(s) ==
    IF s # <<>> /\ \A i \in 1..Len(s) : IsDigit(s[i])
    THEN Ok(PyInt(DigitsVal(s)))
    ELSE Raise("ValueError")

\* str(n) of an int n >= 0.
RECURSIVE str_int(_)
str_int(n) ==
    IF n < 10 THEN <<Digits[n + 1]>>
    ELSE str_int(n \div 10) \o <<Digits[(n % 10) + 1]>>

\* n as at least w digits, zero-padded ('%04d', '%02d').
RECURSIVE zfill(_, _)
zfill(s, w) == IF Len(s) >= w THEN s ELSE zfill(<<"0">> \o s, w)

\* datetime.date(year, month, 1) of two int() outcomes: the first int() to
\* fail raises; a year outside MINYEAR..MAXYEAR (1..9999) or a month outside
\* 1..12 is a ValueError.
date(year, month) ==
    IF year.exc # "" THEN year
    ELSE IF month.exc # "" THEN month
    ELSE IF /\ year.val.n[1] \in 1..9999
            /\ month.val.n[1] \in 1..12
         THEN Ok(PyDate(year.val.n[1], month.val.n[1], 1))
         ELSE Raise("ValueError")

parse_first_brewed(t) ==
    LET parts == split(t, SLASH)
    IN  IF Len(parts) = 2 THEN date(int(parts[2]), int(parts[1]))
        ELSE IF Len(parts) = 1 THEN date(int(parts[1]), Ok(PyInt(1)))
        ELSE Raise("AssertionError")

\* date.isoformat(), which is also str(date)
isoformat(d) ==
    zfill(str_int(d.n[1]), 4) \o <<"-">> \o zfill(str_int(d.n[2]), 2)
        \o <<"-">> \o zfill(str_int(d.n[3]), 2)

\* str(value)
str(v) ==
    IF v.t = "str" THEN v.s
    ELSE IF v.t = "int" THEN str_int(v.n[1])
    ELSE IF v.t = "date" THEN isoformat(v)
    ELSE <<"N", "o", "n", "e">>

\* s.replace('\n', '\\n')
RECURSIVE replace_newline(_)
replace_newline(s) ==
    IF s = <<>> THEN <<>>
    ELSE (IF Head(s) = NL THEN <<BS, "n">> ELSE <<Head(s)>>)
             \o replace_newline(Tail(s))

clean_csv_value(value) ==
    IF value = None THEN <<BS, "N">>
    ELSE replace_newline(str(value))

\* '|'.join(map(clean_csv_value, values)) + '\n'
encode(values) ==
    join([k \in 1..Len(values) |-> clean_csv_value(values[k])], SEP) \o <<NL>>

------------------------------------------------------------------------------
\* The store's side of cursor.copy_from(file, 'staging_beers', sep='|'), with
\* null left at its default '\\N': PostgreSQL's COPY text format.

\* A field's text with its backslash sequences undone: backslash-n is a
\* newline, any other backslashed character stands for itself.
RECURSIVE unescape(_)
unescape(s) ==
    IF s = <<>> THEN <<>>
    ELSE IF Head(s) = BS /\ Len(s) >= 2
         THEN <<IF s[2] = "n" THEN NL ELSE s[2]>> \o unescape(SubSeq(s, 3, Len(s)))
         ELSE <<Head(s)>> \o unescape(Tail(s))

\* One field read into a TEXT column.
copy_text(token) ==
    IF token = <<BS, "N">> THEN None ELSE PyStr(unescape(token))

\* One line (its newline included) read as fields of TEXT columns.
copy_text_line(l) ==
    LET tokens == split(SubSeq(l, 1, Len(l) - 1), SEP)
    IN  [k \in 1..Len(tokens) |-> copy_text(tokens[k])]

------------------------------------------------------------------------------
\* The states in which a part of the program is not in use.
Unset == [exc |-> "unset", val |-> None]

IdleLoad ==
    /\ fn = "" /\ size = 0 /\ beers = [kind |-> "list", items |-> <<>>]
    /\ it = 0 /\ pc = "idle" /\ at = "" /\ table = <<>>
    /\ all_beers = <<>> /\ csv = <<>> /\ prevRows = 0

IdleIO ==
    /\ _iter = <<>> /\ _buff = <<>> /\ io_pc = "idle" /\ io_n = 0 /\ io_req = 0
    /\ io_line = <<>> /\ io_ret = <<>> /\ io_src = <<>> /\ io_last = <<>>
    /\ io_out = <<>>

IdlePure ==
    /\ text = <<>> /\ result = Unset /\ row = <<>> /\ line = <<>>
    /\ decoded = <<>>

\* All strings over an alphabet, up to a length.
Strings(alphabet, n) == UNION {[1..k -> alphabet] : k \in 0..n}

ToSeq(s) == [i \in 1..Len(s) |-> s[i]]

------------------------------------------------------------------------------
\* parse_first_brewed over bounded inputs.
MaxTextLen == 3
ParseAlphabet == {"0", "1", "2", "9", SLASH, "x"}

Texts ==
    Strings(ParseAlphabet, MaxTextLen)
        \cup { <<"0", "9", "/", "2", "0", "0", "7">>,
                <<"1", "2", "/", "1", "9", "9", "9">>,
                <<"1", "3", "/", "2", "0", "0", "7">>,
                <<"0", "0", "/", "2", "0", "0", "7">>,
                <<"9", "/", "2", "0", "0", "7">>,
                <<"2", "0", "1", "6">>,
                <<"0", "0", "0", "0">>,
                <<"0", "9", "/", "0", "6", "/", "2", "0", "0", "7">> }

ParseInit ==
    /\ IdleLoad /\ IdleIO
    /\ text \in Texts /\ result = Unset
    /\ row = <<>> /\ line = <<>> /\ decoded = <<>>

Parse ==
    /\ result = Unset
    /\ result' = parse_first_brewed(text)
    /\ UNCHANGED <<loadVars, ioVars, text, row, line, decoded>>

SpecParse == ParseInit /\ [][Parse]_vars

AllDigits(s) == \A i \in 1..Len(s) : IsDigit(s[i])

\* "MM/YYYY": two digits of a month 01..12, a slash, four digits of a year.
ValidMMYYYY(t) ==
    /\ Len(t) = 7 /\ t[3] = SLASH
    /\ AllDigits(SubSeq(t, 1, 2)) /\ AllDigits(SubSeq(t, 4, 7))
    /\ DigitsVal(SubSeq(t, 1, 2)) \in 1..12
    /\ DigitsVal(SubSeq(t, 4, 7)) >= 1

\* "YYYY": four digits of a year.
ValidYYYY(t) == Len(t) = 4 /\ AllDigits(t) /\ DigitsVal(t) >= 1

\* C9: parse_first_brewed returns the first day of the month for every valid
\* "MM/YYYY", January 1 for every valid "YYYY", and for every other text
\* (the empty text included) fails with the unknown-format error, the
\* assertion of line 102, not with another kind of error and not with a date.
C9_StrictTotal ==
    result # Unset =>
        result = IF ValidMMYYYY(text)
                 THEN Ok(PyDate(DigitsVal(SubSeq(text, 4, 7)),
                                DigitsVal(SubSeq(text, 1, 2)), 1))
                 ELSE IF ValidYYYY(text)
                      THEN Ok(PyDate(DigitsVal(text), 1, 1))
                      ELSE Raise("AssertionError")

------------------------------------------------------------------------------
\* The row encoder and the store's reading of its line, over bounded rows.
MaxFields == 2
MaxValLen == 2
EncAlphabet == {"a", "n", "N", BS, NL}

EncValues == {None} \cup {PyStr(s) : s \in Strings(EncAlphabet, MaxValLen)}
EncRows == UNION {[1..k -> EncValues] : k \in 1..MaxFields}

EncodeInit ==
    /\ IdleLoad /\ IdleIO
    /\ text = <<>> /\ result = Unset
    /\ row \in EncRows /\ line = <<>> /\ decoded = <<>>

Encode ==
    /\ line = <<>>
    /\ line' = encode(row)
    /\ UNCHANGED <<loadVars, ioVars, text, result, row, decoded>>

Decode ==
    /\ line # <<>> /\ decoded = <<>>
    /\ decoded' = copy_text_line(line)
    /\ UNCHANGED <<loadVars, ioVars, text, result, row, line>>

SpecEncode == EncodeInit /\ [][Encode \/ Decode]_vars

\* C10: the store reads an encoded row back as the row it was, for rows of
\* nulls and strings without the delimiter, and the encoded row is one line:
\* its only newline is its last character.
C10_Invertible ==
    /\ line # <<>> =>
           /\ line[Len(line)] = NL
           /\ \A i \in 1..(Len(line) - 1) : line[i] # NL
    /\ decoded # <<>> => decoded = row

------------------------------------------------------------------------------
\* StringIteratorIO.  The generator it wraps is the sequence of what it has
\* still to give: [exc |-> "", s |-> a string], or [exc |-> e] where the
\* generator's expression raises e.
Yield(s) == [exc |-> "", s |-> s]
Throw(e) == [exc |-> e, s |-> <<>>]

Min(a, b) == IF a < b THEN a ELSE b

\* self._buff[:n]; n = None (-1 here) takes it all.
Slice(buff, n) == IF n < 0 THEN buff ELSE SubSeq(buff, 1, Min(n, Len(buff)))

\* A _read1 that forgets the tail it did not return.
Rest_Dropped(buff, ret) == <<>>

\* self._buff[len(ret):]
Rest(buff, ret) == SubSeq(buff, Len(ret) + 1, Len(buff))

\* A _read1 that pulls whenever the generator has more, whatever it holds.
MayPull_Eager(buff, gen) == gen # <<>>

\* `while not self._buff` goes round again: the buffer is empty and the
\* generator has not said StopIteration.
MayPull(buff, gen) == buff = <<>> /\ gen # <<>>

\* read(n) is called: `line = []`, and n None or negative reads to the end.
IOReadCall(n) ==
    /\ io_pc = "idle"
    /\ io_pc' = "loop"
    /\ io_n' = (IF n < 0 THEN -1 ELSE n)
    /\ io_req' = n
    /\ io_line' = <<>>
    /\ UNCHANGED <<_iter, _buff, io_ret, io_src, io_last, io_out>>

\* `while n > 0` is over: return ''.join(line).
IOLoopExit ==
    /\ io_pc = "loop" /\ io_n = 0
    /\ io_pc' = "done"
    /\ io_ret' = io_line
    /\ io_line' = <<>>
    /\ UNCHANGED <<_iter, _buff, io_n, io_req, io_src, io_last, io_out>>

\* _read1: one turn of `while not self._buff`, self._buff = next(self._iter);
\* an exception of the generator leaves read.
IORead1Pull ==
    /\ io_pc = "loop" /\ io_n # 0
    /\ MayPull(_buff, _iter)
    /\ IF Head(_iter).exc = ""
       THEN /\ _iter' = Tail(_iter)
            /\ _buff' = Head(_iter).s
            /\ io_last' = Head(_iter).s
            /\ UNCHANGED <<io_pc, io_line>>
       ELSE /\ _iter' = <<>>
            /\ io_pc' = Head(_iter).exc
            /\ io_line' = <<>>
            /\ UNCHANGED <<_buff, io_last>>
    /\ UNCHANGED <<io_n, io_req, io_ret, io_src, io_out>>

\* A read that, finding nothing, hands back what the read before it returned.
IORead1Slice_Stale ==
    /\ io_pc = "loop" /\ io_n # 0
    /\ ~MayPull(_buff, _iter)
    /\ LET m == Slice(_buff, io_n)
       IN  /\ _buff' = Rest(_buff, m)
           /\ IF m = <<>>
              THEN /\ io_pc' = "done"
                   /\ io_ret' = (IF io_line = <<>> THEN io_ret ELSE io_line)
                   /\ io_line' = <<>>
                   /\ UNCHANGED io_n
              ELSE /\ io_n' = (IF io_n < 0 THEN io_n ELSE io_n - Len(m))
                   /\ io_line' = io_line \o m
                   /\ UNCHANGED <<io_pc, io_ret>>
    /\ UNCHANGED <<_iter, io_req, io_src, io_last, io_out>>

\* _read1 past its loop: ret = self._buff[:n], self._buff = the rest; then
\* read's `if not m: break`, or n -= len(m) and line.append(m).
IORead1Slice ==
    /\ io_pc = "loop" /\ io_n # 0
    /\ ~MayPull(_buff, _iter)
    /\ LET m == Slice(_buff, io_n)
       IN  /\ _buff' = Rest(_buff, m)
           /\ IF m = <<>>
              THEN /\ io_pc' = "done"
                   /\ io_ret' = io_line
                   /\ io_line' = <<>>
                   /\ UNCHANGED io_n
              ELSE /\ io_n' = (IF io_n < 0 THEN io_n ELSE io_n - Len(m))
                   /\ io_line' = io_line \o m
                   /\ UNCHANGED <<io_pc, io_ret>>
    /\ UNCHANGED <<_iter, io_req, io_src, io_last, io_out>>

\* The adapter over bounded generators, read by a caller free in its n.
MaxLines == 2
MaxLineLen == 2
MaxRead == 2
IOAlphabet == {"a", "b"}

Generators == UNION {[1..k -> Strings(IOAlphabet, MaxLineLen)] : k \in 0..MaxLines}

IOInit ==
    /\ IdleLoad /\ IdlePure
    /\ io_src \in Generators
    /\ _iter = [k \in 1..Len(io_src) |-> Yield(io_src[k])]
    /\ _buff = <<>> /\ io_pc = "idle" /\ io_n = 0 /\ io_req = 0
    /\ io_line = <<>> /\ io_ret = <<>> /\ io_last = <<>> /\ io_out = <<>>

ReadCall ==
    /\ \E n \in (-2)..MaxRead : IOReadCall(n)
    /\ UNCHANGED <<loadVars, pureVars>>

LoopExit == IOLoopExit /\ UNCHANGED <<loadVars, pureVars>>

Read1Pull == IORead1Pull /\ UNCHANGED <<loadVars, pureVars>>

Read1Slice == IORead1Slice /\ UNCHANGED <<loadVars, pureVars>>

\* The caller takes what read returned.
Consume ==
    /\ io_pc = "done"
    /\ io_pc' = "idle"
    /\ io_out' = io_out \o io_ret
    /\ UNCHANGED <<_iter, _buff, io_n, io_req, io_line, io_ret, io_src, io_last>>
    /\ UNCHANGED <<loadVars, pureVars>>

IONext == ReadCall \/ LoopExit \/ Read1Pull \/ Read1Slice \/ Consume

SpecIO == IOInit /\ [][IONext]_vars

\* What the generator has still to give, and all it was built over.
Pending == Concat([k \in 1..Len(_iter) |-> _iter[k].s])
Total == Concat(io_src)

\* C5: the chunks read(n) returns are each at most n long, and in order they
\* are the generator's strings in order, nothing lost, doubled or moved: what
\* was returned, what the read in progress holds, the buffer and what the
\* generator has still to give always make up the whole; a read(n), n > 0,
\* that returns the empty string has returned it all, and so has one read()
\* with n unspecified or negative.
C5_Content ==
    /\ io_out \o (IF io_pc = "done" THEN io_ret ELSE io_line) \o _buff \o Pending
           = Total
    /\ (io_pc = "done" /\ io_req >= 0) => Len(io_ret) <= io_req
    /\ (io_pc = "done" /\ io_req > 0 /\ io_ret = <<>>) => io_out = Total
    /\ (io_pc = "done" /\ io_req < 0) => io_out \o io_ret = Total

C5_Witness ==
    /\ io_pc = "done" /\ io_req = 1 /\ io_ret = <<>>
    /\ io_out = Total /\ Len(Total) >= 2
    /\ Len(io_src) >= 2 /\ \E k \in 1..Len(io_src) : io_src[k] = <<>>

IsSuffix(a, b) == Len(a) <= Len(b) /\ a = SubSeq(b, Len(b) - Len(a) + 1, Len(b))

\* The length of the longest string of the generator.
LongestLine ==
    IF io_src = <<>> THEN 0
    ELSE CHOOSE n \in {Len(io_src[k]) : k \in 1..Len(io_src)} :
             \A k \in 1..Len(io_src) : Len(io_src[k]) <= n

\* C6: the buffer holds characters of one pulled line only (it is a tail of
\* the line pulled last), so with lines that are not empty it is shorter
\* than the longest line plus the n asked for; and no line is pulled from
\* the generator while the buffer holds anything.
C6_Bounded ==
    /\ [](/\ IsSuffix(_buff, io_last)
          /\ (LongestLine > 0 /\ io_req >= 0) => Len(_buff) < LongestLine + io_req)
    /\ [][_iter' # _iter => _buff = <<>>]_vars

C6_Witness ==
    /\ io_pc = "idle" /\ io_req = 1 /\ _buff # <<>> /\ _iter # <<>>
    /\ Len(_buff) = LongestLine - 1 /\ io_out # <<>>

AtEOF == _iter = <<>> /\ _buff = <<>>

\* C7: once the generator is exhausted and the buffer empty, a read, whatever
\* its n, returns the empty string and leaves the adapter as it was; the end
\* of the stream stays the end.
C7_Terminal ==
    [][(AtEOF /\ io_line = <<>>) =>
          /\ AtEOF' /\ io_line' = <<>>
          /\ (io_pc # "done" /\ io_pc' = "done") => io_ret' = <<>>]_vars

C7_Witness ==
    /\ AtEOF /\ io_pc = "done" /\ io_req < 0 /\ io_ret = <<>>
    /\ io_out = Total /\ Total # <<>>

------------------------------------------------------------------------------
\* The staging table and the records loaded into it.

\* The columns of staging_beers, in the order CREATE TABLE gives them.
Columns ==
    <<"id", "name", "tagline", "first_brewed", "description", "image_url",
      "abv", "ibu", "target_fg", "target_og", "ebc", "srm", "ph",
      "attenuation_level", "brewers_tips", "contributed_by", "volume">>

ColumnTypes ==
    <<"INTEGER", "TEXT", "TEXT", "DATE", "TEXT", "TEXT", "DECIMAL",
      "DECIMAL", "DECIMAL", "DECIMAL", "DECIMAL", "DECIMAL", "DECIMAL",
      "DECIMAL", "TEXT", "TEXT", "INTEGER">>

NCols == Len(Columns)

\* DROP TABLE IF EXISTS staging_beers; CREATE TABLE staging_beers (...):
\* whatever rows the table held are gone.
create_staging_table_Keep(t) == t

create_staging_table(t) == <<>>

\* The %(name)s slots of the INSERT statements, in the order of its VALUES.
InsertSlots ==
    <<"id", "name", "tagline", "first_brewed", "description", "image_url",
      "abv", "ibu", "target_fg", "target_og", "ebc", "srm", "ph",
      "attenuation_level", "brewers_tips", "contributed_by", "volume">>

\* The fields of the tuples built for execute_values.
TupleFields ==
    <<"id", "name", "tagline", "first_brewed", "description", "image_url",
      "abv", "ibu", "target_fg", "target_og", "ebc", "srm", "ph",
      "attenuation_level", "brewers_tips", "contributed_by", "volume">>

\* The fields copy_stringio writes, in the order it writes them.
StringioFields ==
    <<"id", "name", "tagline", "first_brewed", "description", "image_url",
      "abv", "ibu", "target_fg", "target_og", "ebc", "srm", "ph",
      "attenuation_level", "contributed_by", "brewers_tips", "volume">>

\* The fields copy_string_iterator's generator yields.
IteratorFields ==
    <<"id", "name", "tagline", "first_brewed", "description", "image_url",
      "abv", "ibu", "target_fg", "target_og", "ebc", "srm", "ph",
      "attenuation_level", "brewers_tips", "contributed_by", "volume">>

\* A raw record of the source: a value for every field; first_brewed is text,
\* volume a dict with or without the key 'value'.
Beer(id, name, first_brewed, volume) ==
    [c \in {Columns[k] : k \in 1..NCols} |->
        CASE c = "id" -> PyInt(id)
          [] c = "name" -> PyStr(name)
          [] c = "tagline" -> PyStr(<<"t">>)
          [] c = "first_brewed" -> PyStr(first_brewed)
          [] c = "description" -> PyStr(<<"d", NL, "e">>)
          [] c = "image_url" -> None
          [] c = "abv" -> PyInt(4)
          [] c = "ibu" -> PyInt(60)
          [] c = "ph" -> None
          [] c = "brewers_tips" -> PyStr(<<"b">>)
          [] c = "contributed_by" -> PyStr(<<"c">>)
          [] c = "volume" -> PyDict(volume)
          [] OTHER -> PyInt(7)]

Buzz == Beer(1, <<"B", "u", "z", "z">>, <<"0", "9", "/", "2", "0", "0", "7">>, <<20>>)
Mango == Beer(235, <<"M", "a", "n", "g", "o">>, <<"2", "0", "1", "6">>, <<20>>)
BadDate ==
    Beer(3, <<"X">>, <<"0", "9", "/", "0", "6", "/", "2", "0", "0", "7">>, <<20>>)
NoVolume == Beer(4, <<"Y">>, <<"2", "0", "1", "6">>, <<>>)

Universe == {Buzz, Mango, BadDate, NoVolume}

\* A normalization that lets a record with a bad date through, dateless.
normalize_Lenient(beer) ==
    LET fb == parse_first_brewed(beer["first_brewed"].s)
    IN  IF beer["volume"].n = <<>> THEN Raise("KeyError")
        ELSE [exc |-> "",
              val |-> [beer EXCEPT !["first_brewed"] = fb.val,
                                   !["volume"] = PyInt(beer["volume"].n[1])]]

\* The record as every strategy normalizes it: first_brewed parsed, volume
\* replaced by volume['value']; the first of the two to fail raises.
normalize(beer) ==
    LET fb == parse_first_brewed(beer["first_brewed"].s)
    IN  IF fb.exc # "" THEN [exc |-> fb.exc, val |-> beer]
        ELSE IF beer["volume"].n = <<>> THEN [exc |-> "KeyError", val |-> beer]
        ELSE [exc |-> "",
              val |-> [beer EXCEPT !["first_brewed"] = fb.val,
                                   !["volume"] = PyInt(beer["volume"].n[1])]]

\* The values of a normalized record in the order of a list of fields.
values(fields, rec) == [k \in 1..Len(fields) |-> rec[fields[k]]]

\* What a strategy hands over for one normalized record: the parameters in
\* slot order, the tuple, or the values to encode (copy_string_iterator
\* turns the date into its isoformat() first).
handed(f, rec) ==
    IF f \in {"insert_execute_values", "insert_execute_values_iterator"}
    THEN values(TupleFields, rec)
    ELSE IF f = "copy_stringio" THEN values(StringioFields, rec)
    ELSE IF f = "copy_string_iterator"
         THEN [values(IteratorFields, rec) EXCEPT ![4] = PyStr(isoformat(@))]
         ELSE values(InsertSlots, rec)

------------------------------------------------------------------------------
\* The store.  INSERT ... VALUES puts the k-th value into the k-th column.

\* A Python value the store takes for a column of a type.
Fits(type, v) ==
    \/ v.t = "None"
    \/ type \in {"INTEGER", "DECIMAL"} /\ v.t = "int"
    \/ type = "TEXT" /\ v.t = "str"
    \/ type = "DATE" /\ v.t = "date"

\* The rows as INSERTed: positional, each value fitting its column.
insert_rows(rows) ==
    IF \A j \in 1..Len(rows) : \A k \in 1..NCols : Fits(ColumnTypes[k], rows[j][k])
    THEN [exc |-> "", rows |-> rows]
    ELSE [exc |-> "DataError", rows |-> <<>>]

\* "YYYY-MM-DD"
IsIsoDate(s) ==
    /\ Len(s) = 10 /\ s[5] = "-" /\ s[8] = "-"
    /\ AllDigits(SubSeq(s, 1, 4)) /\ AllDigits(SubSeq(s, 6, 7))
    /\ AllDigits(SubSeq(s, 9, 10))

\* Whether COPY can read a field's text into a column of a type.
CopyFits(type, token) ==
    \/ token = <<BS, "N">>
    \/ type = "TEXT"
    \/ type \in {"INTEGER", "DECIMAL"} /\ token # <<>> /\ AllDigits(token)
    \/ type = "DATE" /\ IsIsoDate(token)

\* One field of a COPY line read into a column of a type.
copy_field(type, token) ==
    IF token = <<BS, "N">> THEN None
    ELSE IF type = "TEXT" THEN PyStr(unescape(token))
    ELSE IF type = "DATE"
         THEN PyDate(DigitsVal(SubSeq(token, 1, 4)), DigitsVal(SubSeq(token, 6, 7)),
                     DigitsVal(SubSeq(token, 9, 10)))
         ELSE PyInt(DigitsVal(token))

\* The lines of a text, each without its newline.
copy_lines(t) == IF t = <<>> THEN <<>> ELSE split(SubSeq(t, 1, Len(t) - 1), NL)

\* COPY staging_beers FROM STDIN with delimiter '|': every line one row, its
\* fields split at the delimiter and read by column type; all rows or none.
copy_rows(t) ==
    LET ls == copy_lines(t)
        toks == [j \in 1..Len(ls) |-> split(ls[j], SEP)]
    IN  IF /\ t # <<>> => t[Len(t)] = NL
           /\ \A j \in 1..Len(ls) :
                  /\ Len(toks[j]) = NCols
                  /\ \A k \in 1..NCols : CopyFits(ColumnTypes[k], toks[j][k])
        THEN [exc |-> "",
              rows |-> [j \in 1..Len(ls) |->
                           [k \in 1..NCols |-> copy_field(ColumnTypes[k], toks[j][k])]]]
        ELSE [exc |-> "DataError", rows |-> <<>>]

------------------------------------------------------------------------------
\* The load: profile.inner around a strategy function.

MaxRecords == 2
MaxPage == 2
SmallRead == 7
DefaultPageSize == 100
DefaultCopySize == 8192

Sources ==
    {[kind |-> k, items |-> i] :
        k \in {"list", "iter"},
        i \in UNION {[1..n -> Universe] : n \in 0..MaxRecords}}

PageSizes == (1..MaxPage) \cup {DefaultPageSize}
CopySizes == {SmallRead, DefaultCopySize}

\* The calls: a strategy function and its page_size or size (0: it has none).
Calls ==
    ({"insert_one_by_one", "insert_executemany", "insert_executemany_iterator",
      "insert_execute_values", "copy_stringio"} \X {0})
    \cup ({"insert_execute_batch", "insert_execute_batch_iterator",
           "insert_execute_values_iterator"} \X PageSizes)
    \cup ({"copy_string_iterator"} \X CopySizes)

\* Where the body goes after create_staging_table.
FirstStage(f) ==
    IF f \in {"insert_one_by_one", "insert_executemany_iterator"} THEN "rows"
    ELSE IF f \in {"insert_executemany", "insert_execute_batch",
                   "insert_execute_values"} THEN "materialize"
    ELSE IF f \in {"insert_execute_batch_iterator",
                   "insert_execute_values_iterator"} THEN "page"
    ELSE IF f = "copy_stringio" THEN "write"
    ELSE "open"

\* How many rows one statement sent to the store carries: executemany sends
\* them one by one, execute_values without a page_size takes its default.
PageSize(f, sz) ==
    IF f = "insert_executemany" THEN 1
    ELSE IF f = "insert_execute_values" THEN DefaultPageSize
    ELSE sz

N == Len(beers.items)
Exhausted == it = N
NextBeer == beers.items[it + 1]

IOReset ==
    /\ _iter' = <<>> /\ _buff' = <<>> /\ io_pc' = "idle" /\ io_n' = 0
    /\ io_req' = 0 /\ io_line' = <<>> /\ io_ret' = <<>> /\ io_src' = <<>>
    /\ io_last' = <<>> /\ io_out' = <<>>

\* A strategy function is called with a source: profile.inner runs it for the
\* time measurement (line 23).
Call ==
    /\ pc = "idle"
    /\ \E c \in Calls, src \in Sources :
           /\ fn' = c[1] /\ size' = c[2] /\ beers' = src
    /\ it' = 0 /\ pc' = "timing" /\ at' = "create"
    /\ prevRows' = Len(table)
    /\ UNCHANGED <<table, all_beers, csv, ioVars, pureVars>>

\* The body starts: create_staging_table(cursor).  A list is iterated from
\* its start by every run; an iterator goes on from where it is.
CreateStagingTable ==
    /\ pc \in {"timing", "memory"} /\ at = "create"
    /\ table' = create_staging_table(table)
    /\ it' = (IF beers.kind = "list" THEN 0 ELSE it)
    /\ at' = FirstStage(fn)
    /\ all_beers' = <<>> /\ csv' = <<>>
    /\ IOReset
    /\ UNCHANGED <<fn, size, beers, pc, prevRows, pureVars>>

\* insert_one_by_one's loop and executemany over a generator: the next record
\* is normalized and executed.
InsertNext ==
    /\ pc \in {"timing", "memory"} /\ at = "rows" /\ ~Exhausted
    /\ it' = it + 1
    /\ LET r == normalize(NextBeer)
           ins == insert_rows(<<handed(fn, r.val)>>)
       IN  IF r.exc = "" /\ ins.exc = ""
           THEN table' = table \o ins.rows /\ pc' = pc
           ELSE table' = table /\ pc' = "raised"
    /\ UNCHANGED <<fn, size, beers, at, all_beers, csv, prevRows, ioVars, pureVars>>

\* The list comprehensions: the next record is normalized into the list.
MaterializeNext ==
    /\ pc \in {"timing", "memory"} /\ at = "materialize" /\ ~Exhausted
    /\ it' = it + 1
    /\ LET r == normalize(NextBeer)
       IN  IF r.exc = ""
           THEN all_beers' = Append(all_beers, handed(fn, r.val)) /\ pc' = pc
           ELSE all_beers' = all_beers /\ pc' = "raised"
    /\ UNCHANGED <<fn, size, beers, at, table, csv, prevRows, ioVars, pureVars>>

\* executemany, execute_batch, execute_values over the list: the next page
\* of it goes to the store.
SendPage ==
    /\ pc \in {"timing", "memory"} /\ at = "send" /\ all_beers # <<>>
    /\ LET k == Min(PageSize(fn, size), Len(all_beers))
           ins == insert_rows(SubSeq(all_beers, 1, k))
       IN  /\ all_beers' = SubSeq(all_beers, k + 1, Len(all_beers))
           /\ IF ins.exc = ""
              THEN table' = table \o ins.rows /\ pc' = pc
              ELSE table' = table /\ pc' = "raised"
    /\ UNCHANGED <<fn, size, beers, it, at, csv, prevRows, ioVars, pureVars>>

\* execute_batch, execute_values over a generator: the page takes the next
\* normalized record.
PageFill ==
    /\ pc \in {"timing", "memory"} /\ at = "page" /\ ~Exhausted
    /\ Len(all_beers) < size
    /\ it' = it + 1
    /\ LET r == normalize(NextBeer)
       IN  IF r.exc = ""
           THEN all_beers' = Append(all_beers, handed(fn, r.val)) /\ pc' = pc
           ELSE all_beers' = all_beers /\ pc' = "raised"
    /\ UNCHANGED <<fn, size, beers, at, table, csv, prevRows, ioVars, pureVars>>

\* The page is full, or the generator is exhausted: the page goes to the store.
PageSend ==
    /\ pc \in {"timing", "memory"} /\ at = "page" /\ all_beers # <<>>
    /\ Len(all_beers) = size \/ Exhausted
    /\ all_beers' = <<>>
    /\ LET ins == insert_rows(all_beers)
       IN  IF ins.exc = ""
           THEN table' = table \o ins.rows /\ pc' = pc
           ELSE table' = table /\ pc' = "raised"
    /\ UNCHANGED <<fn, size, beers, it, at, csv, prevRows, ioVars, pureVars>>

\* copy_stringio's loop: the next record's line is written to the StringIO.
WriteNext ==
    /\ pc \in {"timing", "memory"} /\ at = "write" /\ ~Exhausted
    /\ it' = it + 1
    /\ LET r == normalize(NextBeer)
       IN  IF r.exc = ""
           THEN csv' = csv \o encode(handed(fn, r.val)) /\ pc' = pc
           ELSE csv' = csv /\ pc' = "raised"
    /\ UNCHANGED <<fn, size, beers, at, table, all_beers, prevRows, ioVars, pureVars>>

\* A loop of the body is over.
LoopOver ==
    \/ at \in {"rows", "materialize", "write"} /\ Exhausted
    \/ at = "page" /\ Exhausted /\ all_beers = <<>>
    \/ at = "send" /\ all_beers = <<>>

LoopEnd ==
    /\ pc \in {"timing", "memory"} /\ LoopOver
    /\ at' = (IF at = "materialize" THEN "send"
              ELSE IF at = "write" THEN "copy" ELSE "end")
    /\ UNCHANGED <<fn, size, beers, it, pc, table, all_beers, csv, prevRows,
                   ioVars, pureVars>>

\* csv_file_like_object.seek(0); cursor.copy_from(csv_file_like_object, ...)
CopyFrom ==
    /\ pc \in {"timing", "memory"} /\ at = "copy"
    /\ LET r == copy_rows(csv)
       IN  IF r.exc = ""
           THEN table' = table \o r.rows /\ pc' = pc /\ at' = "end"
           ELSE table' = table /\ pc' = "raised" /\ at' = at
    /\ UNCHANGED <<fn, size, beers, it, all_beers, csv, prevRows, ioVars, pureVars>>

\* copy_string_iterator builds its StringIteratorIO over the generator of the
\* records' lines: what the generator gives for each record still to come.
StreamOpen ==
    /\ pc \in {"timing", "memory"} /\ at = "open"
    /\ at' = "stream"
    /\ _iter' = [k \in 1..(N - it) |->
                    LET r == normalize(beers.items[it + k])
                    IN  IF r.exc = "" THEN Yield(encode(handed(fn, r.val)))
                        ELSE Throw(r.exc)]
    /\ io_src' = <<>>
    /\ _buff' = <<>>
    /\ UNCHANGED <<io_pc, io_n, io_req, io_line, io_ret, io_last, io_out>>
    /\ UNCHANGED <<fn, size, beers, it, pc, table, all_beers, csv, prevRows, pureVars>>

\* cursor.copy_from(beers_string_iterator, ..., size=size) asks for more.
StreamRead ==
    /\ pc \in {"timing", "memory"} /\ at = "stream"
    /\ IOReadCall(size)
    /\ UNCHANGED <<loadVars, pureVars>>

StreamLoopExit ==
    /\ pc \in {"timing", "memory"} /\ at = "stream"
    /\ IOLoopExit
    /\ UNCHANGED <<loadVars, pureVars>>

\* The generator is asked for the next record's line: the source gives a
\* record, and its normalization may raise through read and copy_from.
StreamPull ==
    /\ pc \in {"timing", "memory"} /\ at = "stream"
    /\ IORead1Pull
    /\ it' = it + 1
    /\ pc' = (IF Head(_iter).exc = "" THEN pc ELSE "raised")
    /\ UNCHANGED <<fn, size, beers, at, table, all_beers, csv, prevRows, pureVars>>

StreamSlice ==
    /\ pc \in {"timing", "memory"} /\ at = "stream"
    /\ IORead1Slice
    /\ UNCHANGED <<loadVars, pureVars>>

\* copy_from takes what read returned: text for the store's COPY, or the
\* empty string that ends it, and the store then reads the rows.
CopyChunk ==
    /\ pc \in {"timing", "memory"} /\ at = "stream" /\ io_pc = "done"
    /\ io_pc' = "idle"
    /\ io_out' = io_out \o io_ret
    /\ LET r == copy_rows(io_out)
       IN  IF io_ret # <<>>
           THEN UNCHANGED <<table, pc, at>>
           ELSE IF r.exc = ""
                THEN table' = table \o r.rows /\ pc' = pc /\ at' = "end"
                ELSE table' = table /\ pc' = "raised" /\ at' = at
    /\ UNCHANGED <<_iter, _buff, io_n, io_req, io_line, io_ret, io_src, io_last>>
    /\ UNCHANGED <<fn, size, beers, it, all_beers, csv, prevRows, pureVars>>

\* The body returns: after the timed run profile.inner runs the function
\* again under memory_usage (line 28), and after that returns (line 31).
BodyReturn ==
    /\ pc \in {"timing", "memory"} /\ at = "end"
    /\ pc' = (IF pc = "timing" THEN "memory" ELSE "returned")
    /\ at' = (IF pc = "timing" THEN "create" ELSE "end")
    /\ UNCHANGED <<fn, size, beers, it, table, all_beers, csv, prevRows,
                   ioVars, pureVars>>

\* The call is over, normally or not; the table stays as it is for the next.
Reset ==
    /\ pc \in {"returned", "raised"}
    /\ fn' = "" /\ size' = 0 /\ beers' = [kind |-> "list", items |-> <<>>]
    /\ it' = 0 /\ pc' = "idle" /\ at' = "" /\ all_beers' = <<>> /\ csv' = <<>>
    /\ prevRows' = 0
    /\ IOReset
    /\ UNCHANGED <<table, pureVars>>

Init == IdleLoad /\ IdleIO /\ IdlePure

Next ==
    \/ Call \/ CreateStagingTable \/ InsertNext \/ MaterializeNext \/ SendPage
    \/ PageFill \/ PageSend \/ WriteNext \/ LoopEnd \/ CopyFrom \/ StreamOpen
    \/ StreamRead \/ StreamLoopExit \/ StreamPull \/ StreamSlice \/ CopyChunk
    \/ BodyReturn \/ Reset

Spec == Init /\ [][Next]_vars

------------------------------------------------------------------------------
\* The row staging_beers should hold for a record: the normalized record's
\* fields, each in the column of its name.
Expected(beer) == values(Columns, normalize(beer).val)

\* The table belongs to the load in progress: the body has started.
Loading == pc # "idle" /\ ~(pc = "timing" /\ at = "create")

\* C1: after a load of a list of N well-formed records has returned, the
\* table holds N rows and, matched by id, every column of a record's row is
\* the field of the normalized record, whichever the strategy.
C1_RoundTrip ==
    (pc = "returned" /\ beers.kind = "list") =>
        /\ Len(table) = N
        /\ \A i \in 1..N : \E j \in 1..Len(table) :
               /\ table[j][1] = beers.items[i]["id"]
               /\ table[j] = Expected(beers.items[i])

\* C2: a call runs the strategy body once, never a second time, and when it
\* returns the table holds the N records of the source, a one-pass iterator
\* included.
C2_OnePass ==
    /\ pc # "memory"
    /\ pc = "returned" => Len(table) = N

\* C3: whatever loads went before, the table holds rows of the load in
\* progress only: no more rows than its records, the j-th row the j-th
\* record's, and exactly N rows once a load of a list of N records returned.
C3_Replaced ==
    Loading =>
        /\ Len(table) <= N
        /\ \A j \in 1..Len(table) : table[j][1] = beers.items[j]["id"]
        /\ (pc = "returned" /\ beers.kind = "list") => Len(table) = N

\* A load of N >= 2 records returned over a table that held N rows before.
C3_Witness ==
    /\ pc = "returned" /\ beers.kind = "list"
    /\ N >= 2 /\ prevRows = N /\ Len(table) = N

\* C4: every row the store was handed sits in the table with, in its k-th
\* column, the field of the record that has the k-th column's name, for all
\* 17 columns and every strategy.
C4_Aligned ==
    Loading =>
        \A j \in 1..Len(table) :
            /\ j <= N
            /\ \A k \in 1..NCols :
                   table[j][k] = normalize(beers.items[j]).val[Columns[k]]

\* A record whose normalization fails: a first_brewed that does not parse,
\* or a volume without 'value'.
Bad(beer) ==
    \/ parse_first_brewed(beer["first_brewed"].s).exc # ""
    \/ beer["volume"].n = <<>>

\* The position of the first such record of the source, or 0.
FirstBad ==
    IF \E i \in 1..N : Bad(beers.items[i])
    THEN CHOOSE i \in 1..N :
             Bad(beers.items[i]) /\ \A j \in 1..(i - 1) : ~Bad(beers.items[j])
    ELSE 0

IsPrefix(a, b) == Len(a) <= Len(b) /\ a = SubSeq(b, 1, Len(a))

\* The lines of the records before position k, as the strategy encodes them.
LinesBefore(k) ==
    Concat([j \in 1..(k - 1) |-> encode(handed(fn, normalize(beers.items[j]).val))])

\* C8: when the record at position k is the first whose normalization fails,
\* the load never gets past the run that meets it: it neither runs again nor
\* returns; no record after k is pulled from the source; what reached the
\* store (rows inserted, text copied) and what waits in a list, a page or
\* the StringIO comes from records before k only; and the call ends raised
\* with exactly k records pulled.
C8_FailFast ==
    (pc # "idle" /\ FirstBad > 0) =>
        /\ pc \in {"timing", "raised"}
        /\ at # "end"
        /\ it <= FirstBad
        /\ pc = "raised" => it = FirstBad
        /\ Len(all_beers) < FirstBad
        /\ IsPrefix(csv, LinesBefore(FirstBad))
        /\ IsPrefix(io_out, LinesBefore(FirstBad))
        /\ at # "create" =>
               /\ Len(table) < FirstBad
               /\ \A j \in 1..Len(table) : table[j][1] = beers.items[j]["id"]

\* A row-at-a-time load raised at its second record with the first inserted.
C8_Witness ==
    /\ pc = "raised" /\ fn = "insert_one_by_one"
    /\ FirstBad = 2 /\ it = 2 /\ Len(table) = 1

==============================================================================
